---- MODULE Spec2Model ----
(***************************************************************************)
(* A model of xe::cpu::ExecModule (src/src/cpu/exec_module.cc): the        *)
(* preparation pipeline Prepare(), the global/trampoline injection, the    *)
(* variable binding and guest entry point invocation of Init(), Uninit()   *)
(* and the destructor.                                                     *)
(*                                                                         *)
(* Every public operation is one action.  The order in which an operation  *)
(* performs its steps is recorded in `trace`, the list of the steps of the *)
(* operation that ran last.  The collaborators that are not part of the    *)
(* file (the symbol database, the code generator, the bitcode reader, the  *)
(* linker, the execution engine) appear through their results, which the   *)
(* actions draw from small sets.                                           *)
(***************************************************************************)
EXTENDS Integers, Sequences, FiniteSets, TLC

(***************************************************************************)
(* Bounds.                                                                 *)
(***************************************************************************)
\* Number of 32-bit import slots of the guest image that may hold a variable symbol.
NumSlots == 2
\* Number of PrepareUserModule/PrepareRawBinary calls made on the one ExecModule.
MaxCalls == 2

(***************************************************************************)
(* Program constants.                                                      *)
(***************************************************************************)
\* A 32-bit value is the tuple of its four bytes, most significant first.
\* The dummy value 0xDEADBEEF written for an import variable with no value.
DEADBEEF == <<222, 173, 190, 239>>
\* The alignment given to the xe_memory_base global.
MemoryBaseAlignment == 64
\* sizeof(uint32_t): the size of the slot of an import variable.
SlotBytes == 4

MemSize == NumSlots * SlotBytes
Addrs == 0 .. (MemSize - 1)

(***************************************************************************)
(* 32-bit values, byte order and guest memory.                             *)
(***************************************************************************)
\* Byte i (0 = least significant) of a 32-bit value.
ByteOf(v, i) == v[SlotBytes - i]

ByteSwap32(v) == <<ByteOf(v, 0), ByteOf(v, 1), ByteOf(v, 2), ByteOf(v, 3)>>

\* The host the generated code runs on is little-endian (x86).
HostLittleEndian == TRUE

\* XESWAP32BE: converts between host order and big-endian order.
XESWAP32BE(v) == IF HostLittleEndian THEN ByteSwap32(v) ELSE v

\* *slot = v for a uint32_t* slot at mem + address: the host stores the value in
\* its own byte order.
StoreSlot(mem, address, v) ==
  [a \in Addrs |->
     IF a >= address /\ a < address + SlotBytes
     THEN IF HostLittleEndian THEN ByteOf(v, a - address)
                              ELSE ByteOf(v, (SlotBytes - 1) - (a - address))
     ELSE mem[a]]

\* Interpretation of a 32-bit pattern as a signed integer (getSExtValue, cast to int).
SExt32(v) ==
  (IF v[1] >= 128 THEN v[1] - 256 ELSE v[1]) * 16777216 + v[2] * 65536 + v[3] * 256 + v[4]

\* Guest memory before any binding: every byte differs from its neighbours.
InitialMemory == [a \in Addrs |-> 16 + a]

(***************************************************************************)
(* Kernel exports and the symbols of the guest image.                      *)
(***************************************************************************)
NoExport ==
  [bound |-> FALSE, name |-> "", type |-> "None", is_implemented |-> FALSE, variable_ptr |-> <<0, 0, 0, 0>>]

KernelExports ==
  { [bound |-> TRUE, name |-> "XexExecutableModuleHandle", type |-> "Variable",
     is_implemented |-> TRUE, variable_ptr |-> <<18, 52, 86, 120>>],
    [bound |-> TRUE, name |-> "ExLoadedCommandLine", type |-> "Variable",
     is_implemented |-> FALSE, variable_ptr |-> <<0, 0, 0, 0>>],
    [bound |-> TRUE, name |-> "NtClose", type |-> "Function",
     is_implemented |-> TRUE, variable_ptr |-> <<0, 0, 0, 0>>],
    [bound |-> TRUE, name |-> "NtOpenFile", type |-> "Function",
     is_implemented |-> FALSE, variable_ptr |-> <<0, 0, 0, 0>>] }

Bindings == KernelExports \cup {NoExport}

SlotAddress(i) == (i - 1) * SlotBytes

\* The guest images: for each import slot, what the variable symbol found there is
\* bound to.
Images == [1 .. NumSlots -> Bindings]

\* The one guest function every image holds.
FunctionSymbols == {"sub_1000"}

\* The range PrepareRawBinary is called with: the import slots of the image.
RawRanges == { <<0, MemSize>> }

(***************************************************************************)
(* State.                                                                  *)
(***************************************************************************)
VARIABLES
  flags,        \* FLAGS_dump_module_map, FLAGS_dump_module_bitcode, FLAGS_optimize_ir_modules
  gen_module,   \* gen_module_: the generated module
  sdb,          \* sdb_: the symbol database
  codegen,      \* codegen_: the module generator
  engine,       \* engine_: the execution engine
  memory,       \* the bytes of guest memory
  owned,        \* the references the object holds: memory_, module_name_, module_path_
  status,       \* "alive", "destroyed" or "faulted" (the process died)
  calls,        \* PrepareUserModule/PrepareRawBinary calls made so far
  counts,       \* how often Generate, InjectGlobals, Init and Uninit have run
  trace,        \* the steps of the operation that ran last, in order
  passes,       \* the passes added to the pass manager of the Prepare that ran last
  writes,       \* the slot writes of the Init that ran last, in order
  warnings,     \* the exports named in warnings by the Init that ran last, in order
  result_code,  \* what the last Prepare returned
  init_result,  \* what the last Init returned
  entry_ret,    \* the 32-bit value the last run of xe_module_init returned
  run_args,     \* the argument list of the last runFunction call
  error_message \* error_message of the Prepare that ran last: the step that set it, "" when empty

vars ==
  << flags, gen_module, sdb, codegen, engine, memory, owned, status, calls,
     counts, trace, passes, writes, warnings, result_code, init_result, entry_ret,
     run_args, error_message >>

\* The state the trampolines act on when generated code calls them.
VARIABLES
  log,          \* the records printed and logged so far, in order
  halted,       \* the process was stopped by an assertion
  ppc_state,    \* the guest processor state the trampolines are handed
  last_call,    \* the trampoline called last
  tcalls        \* trampoline calls made so far

tvars == << log, halted, ppc_state, last_call, tcalls >>

\* The argument and the answer of FileSystem::InferType.
VARIABLES
  local_path,   \* the host path handed to InferType, character by character
  fs_type       \* what InferType returned, "none" before the call

ivars == << local_path, fs_type >>

\* The state of a FileSystem.
VARIABLES
  devices,      \* devices_: the registered devices, in order of registration
  symlinks,     \* symlinks_: the symbolic links, as a set of [path, target]
  fs_last       \* the FileSystem operation performed last, with its arguments and result

fsvars == << devices, symlinks, fs_last >>

\* No generated code is running: no trampoline has been called.
TrampolinesIdle ==
  /\ log = <<>>
  /\ halted = FALSE
  /\ ppc_state = [cia |-> 0, r3 |-> 0]
  /\ last_call = ""
  /\ tcalls = 0

\* InferType has not been called.
InferIdle ==
  /\ local_path = <<>>
  /\ fs_type = "none"

\* FileSystem::FileSystem: no device, no link.
FileSystemStart ==
  /\ devices = <<>>
  /\ symlinks = {}
  /\ fs_last = [op |-> "FileSystem"]

\* The value of result_code and init_result before any call has returned.
NoResult == 0 - 99

NullModule ==
  [exists |-> FALSE, functions |-> {}, globals |-> {}, materialized |-> FALSE]

NullSdb ==
  [id |-> 0, kind |-> "none", range |-> <<0, 0>>, analyzed |-> FALSE, variables |-> <<>>]

NullCodegen == [exists |-> FALSE, sdb_id |-> 0]

\* The object as one record, which the operators below take and return.
Self ==
  [ gen_module |-> gen_module, sdb |-> sdb, codegen |-> codegen, engine |-> engine,
    memory |-> memory, owned |-> owned, status |-> status, counts |-> counts,
    trace |-> trace, passes |-> passes, writes |-> writes, warnings |-> warnings,
    result_code |-> result_code, init_result |-> init_result, entry_ret |-> entry_ret,
    run_args |-> run_args, error_message |-> error_message ]

Ev(m, e) == [m EXCEPT !.trace = Append(@, e)]

HasFunction(m, name) == \E f \in m.gen_module.functions : f.name = name

(***************************************************************************)
(* ExecModule::ExecModule                                                  *)
(***************************************************************************)
ExecModuleStart ==
  /\ flags \in [dump_module_map : BOOLEAN, dump_module_bitcode : BOOLEAN,
                optimize_ir_modules : BOOLEAN]
  /\ gen_module = NullModule
  /\ sdb = NullSdb
  /\ codegen = NullCodegen
  /\ engine = [mappings |-> {}, compiled |-> {}, removed |-> FALSE]
  /\ memory = InitialMemory
  /\ owned = [memory |-> TRUE, module_name |-> TRUE, module_path |-> TRUE]
  /\ status = "alive"
  /\ calls = 0
  /\ counts = [generate |-> 0, inject |-> 0, init |-> 0, uninit |-> 0]
  /\ trace = <<>>
  /\ passes = <<>>
  /\ writes = <<>>
  /\ warnings = <<>>
  /\ result_code = NoResult
  /\ init_result = NoResult
  /\ entry_ret = <<0, 0, 0, 0>>
  /\ run_args = <<>>
  /\ error_message = ""

Init ==
  /\ ExecModuleStart
  /\ TrampolinesIdle
  /\ InferIdle
  /\ FileSystemStart

(***************************************************************************)
(* ExecModule::InjectGlobals                                               *)
(***************************************************************************)
\* The trampolines, each with the native function it is bound to.
Trampolines ==
  { [name |-> "XeTrap", address |-> "&XeTrap"],
    [name |-> "XeIndirectBranch", address |-> "&XeIndirectBranch"],
    [name |-> "XeInvalidInstruction", address |-> "&XeInvalidInstruction"],
    [name |-> "XeTraceKernelCall", address |-> "&XeTraceKernelCall"],
    [name |-> "XeTraceUserCall", address |-> "&XeTraceUserCall"],
    [name |-> "XeTraceInstruction", address |-> "&XeTraceInstruction"] }

MemoryBaseGlobal ==
  [name |-> "xe_memory_base", constant |-> TRUE, alignment |-> MemoryBaseAlignment,
   value |-> "xe_memory_addr(memory_, 0)"]

\* A variant that publishes the memory base as a global that is not constant.
InjectGlobals_MutableBase(m) ==
  [m EXCEPT
     !.gen_module.globals = @ \cup {[MemoryBaseGlobal EXCEPT !.constant = FALSE]},
     !.gen_module.functions = @ \cup {[name |-> t.name, body |-> FALSE] : t \in Trampolines},
     !.engine.mappings = @ \cup Trampolines,
     !.counts.inject = @ + 1,
     !.trace = Append(@, "InjectGlobals")]

InjectGlobals(m) ==
  [m EXCEPT
     !.gen_module.globals = @ \cup {MemoryBaseGlobal},
     !.gen_module.functions = @ \cup {[name |-> t.name, body |-> FALSE] : t \in Trampolines},
     !.engine.mappings = @ \cup Trampolines,
     !.counts.inject = @ + 1,
     !.trace = Append(@, "InjectGlobals")]

(***************************************************************************)
(* ExecModule::Init                                                        *)
(***************************************************************************)
\* A variant of the loop body that stores the export's value without converting
\* it to the guest's byte order.
BindVariable_NoSwap(m, var) ==
  IF ~var.kernel_export.bound THEN m
  ELSE IF var.kernel_export.type = "Function" THEN m
  ELSE IF var.kernel_export.is_implemented
  THEN [m EXCEPT
          !.memory = StoreSlot(@, var.address, var.kernel_export.variable_ptr),
          !.writes = Append(@, var.address)]
  ELSE [m EXCEPT
          !.memory = StoreSlot(@, var.address, XESWAP32BE(DEADBEEF)),
          !.writes = Append(@, var.address),
          !.warnings = Append(@, var.kernel_export.name)]

\* A variant of the loop body that writes the dummy value without logging.
BindVariable_NoWarning(m, var) ==
  IF ~var.kernel_export.bound THEN m
  ELSE IF var.kernel_export.type = "Function" THEN m
  ELSE IF var.kernel_export.is_implemented
  THEN [m EXCEPT
          !.memory = StoreSlot(@, var.address, XESWAP32BE(var.kernel_export.variable_ptr)),
          !.writes = Append(@, var.address)]
  ELSE [m EXCEPT
          !.memory = StoreSlot(@, var.address, XESWAP32BE(DEADBEEF)),
          !.writes = Append(@, var.address)]

\* A variant of the loop body that treats a function export like a variable export.
BindVariable_WritesFunctionExport(m, var) ==
  IF ~var.kernel_export.bound THEN m
  ELSE IF var.kernel_export.is_implemented
  THEN [m EXCEPT
          !.memory = StoreSlot(@, var.address, XESWAP32BE(var.kernel_export.variable_ptr)),
          !.writes = Append(@, var.address)]
  ELSE [m EXCEPT
          !.memory = StoreSlot(@, var.address, XESWAP32BE(DEADBEEF)),
          !.writes = Append(@, var.address),
          !.warnings = Append(@, var.kernel_export.name)]

\* What one iteration of the loop over the variables does for the symbol var.
BindVariable(m, var) ==
  IF ~var.kernel_export.bound THEN m
  ELSE IF var.kernel_export.type = "Function" THEN m
  ELSE IF var.kernel_export.is_implemented
  THEN [m EXCEPT
          !.memory = StoreSlot(@, var.address, XESWAP32BE(var.kernel_export.variable_ptr)),
          !.writes = Append(@, var.address)]
  ELSE [m EXCEPT
          !.memory = StoreSlot(@, var.address, XESWAP32BE(DEADBEEF)),
          !.writes = Append(@, var.address),
          !.warnings = Append(@, var.kernel_export.name)]

RECURSIVE BindVariables(_, _, _)
BindVariables(m, variables, i) ==
  IF i > Len(variables) THEN m
  ELSE BindVariables(BindVariable(m, variables[i]), variables, i + 1)

\* engine_->runFunction(fn, args) for the function named name.  A null function
\* is undefined behaviour: the engine asserts or dereferences the null pointer,
\* and the process dies either way.
RunFunction(m, name, args, env) ==
  IF HasFunction(m, name)
  THEN [Ev(m, name) EXCEPT !.run_args = args]
  ELSE [Ev(Ev(m, "runFunction(NULL)"), env.ub) EXCEPT !.run_args = args, !.status = "faulted"]

\* A variant of Init that calls the entry point before the static constructors.
ExecInit_EntryBeforeConstructors(m, env) ==
  LET m0 == [Ev(m, "Init") EXCEPT !.writes = <<>>, !.warnings = <<>>,
                                  !.counts.init = @ + 1] IN
  IF ~env.getvars_ok THEN [m0 EXCEPT !.init_result = 1]
  ELSE
    LET m1 == Ev(BindVariables(m0, m0.sdb.variables, 1), "bind_variables")
        m2 == RunFunction(m1, "xe_module_init", <<>>, env)
    IN IF m2.status = "faulted" THEN m2
       ELSE [Ev(m2, "static_constructors") EXCEPT
               !.entry_ret = env.entry_ret, !.init_result = SExt32(env.entry_ret)]

ExecInit(m, env) ==
  LET m0 == [Ev(m, "Init") EXCEPT !.writes = <<>>, !.warnings = <<>>,
                                  !.counts.init = @ + 1] IN
  IF ~env.getvars_ok THEN [m0 EXCEPT !.init_result = 1]
  ELSE
    LET m1 == Ev(BindVariables(m0, m0.sdb.variables, 1), "bind_variables")
        m2 == Ev(m1, "static_constructors")
        m3 == RunFunction(m2, "xe_module_init", <<>>, env)
    IN IF m3.status = "faulted" THEN m3
       ELSE [m3 EXCEPT !.entry_ret = env.entry_ret, !.init_result = SExt32(env.entry_ret)]

(***************************************************************************)
(* ExecModule::Uninit                                                      *)
(***************************************************************************)
Uninit(m, env) ==
  LET m0 == [Ev(m, "Uninit") EXCEPT !.counts.uninit = @ + 1]
      m1 == RunFunction(m0, "xe_module_uninit", <<>>, env)
  IN IF m1.status = "faulted" THEN m1
     ELSE Ev(Ev(m1, "static_destructors"), "Uninit returns 0")

(***************************************************************************)
(* ExecModule::~ExecModule                                                 *)
(***************************************************************************)
\* A variant of the destructor that detaches the module before the guest teardown.
Destructor_DetachBeforeUninit(m, env) ==
  LET m0 == [m EXCEPT !.trace = <<>>]
      m1 == IF m0.gen_module.exists
            THEN [Ev(m0, "removeModule") EXCEPT !.engine.removed = TRUE]
            ELSE m0
      m2 == IF m1.gen_module.exists THEN Uninit(m1, env) ELSE m1
  IN IF m2.status = "faulted" THEN m2
     ELSE
       LET m3 == [Ev(m2, "free(module_path_)") EXCEPT !.owned.module_path = FALSE]
           m4 == [Ev(m3, "free(module_name_)") EXCEPT !.owned.module_name = FALSE]
       IN [Ev(m4, "xe_memory_release(memory_)") EXCEPT
             !.owned.memory = FALSE, !.status = "destroyed"]

Destructor(m, env) ==
  LET m0 == [m EXCEPT !.trace = <<>>]
      m1 == IF m0.gen_module.exists THEN Uninit(m0, env) ELSE m0
  IN IF m1.status = "faulted" THEN m1
     ELSE
       LET m2 == IF m1.gen_module.exists
                 THEN [Ev(m1, "removeModule") EXCEPT !.engine.removed = TRUE]
                 ELSE m1
           m3 == [Ev(m2, "free(module_path_)") EXCEPT !.owned.module_path = FALSE]
           m4 == [Ev(m3, "free(module_name_)") EXCEPT !.owned.module_name = FALSE]
       IN [Ev(m4, "xe_memory_release(memory_)") EXCEPT
             !.owned.memory = FALSE, !.status = "destroyed"]

(***************************************************************************)
(* ExecModule::Prepare                                                     *)
(***************************************************************************)
\* A step of Prepare yields the object and whether Prepare goes on (ok) or jumps
\* to XECLEANUP.
Go(m) == [m |-> m, ok |-> TRUE]
Abort(m) == [m |-> m, ok |-> FALSE]

\* MemoryBuffer::getFile and ParseBitcodeFile of the shared thunk module.
LoadSharedModule(m, env) ==
  IF env.fail = "getFile" THEN Abort(Ev(m, "getFile"))
  ELSE IF env.fail = "ParseBitcodeFile"
  THEN Abort([Ev(Ev(m, "getFile"), "ParseBitcodeFile") EXCEPT
                !.error_message = "ParseBitcodeFile"])
  ELSE Go(Ev(Ev(m, "getFile"), "ParseBitcodeFile"))

\* The variable symbols analysis finds: the container analysis resolves the
\* import bindings, the raw range analysis has no import metadata.
RECURSIVE SymbolsOf(_, _, _, _)
SymbolsOf(img, kind, range, i) ==
  IF i > NumSlots THEN <<>>
  ELSE LET a == SlotAddress(i) IN
       IF kind = "xex"
       THEN <<[address |-> a, kernel_export |-> img[i]]>> \o SymbolsOf(img, kind, range, i + 1)
       ELSE IF a >= range[1] /\ a < range[2]
       THEN <<[address |-> a, kernel_export |-> NoExport]>> \o SymbolsOf(img, kind, range, i + 1)
       ELSE SymbolsOf(img, kind, range, i + 1)

\* A variant that goes on after an analysis that failed.
Analyze_IgnoreFailure(m, env, flg) ==
  IF env.fail = "Analyze" THEN Go(Ev(m, "Analyze"))
  ELSE
    LET m1 == [Ev(m, "Analyze") EXCEPT
                 !.sdb.analyzed = TRUE,
                 !.sdb.variables = SymbolsOf(env.image, m.sdb.kind, m.sdb.range, 1)]
    IN Go(IF flg.dump_module_map THEN Ev(m1, "sdb_->Write") ELSE m1)

\* sdb_->Analyze(), then the dump of the symbol map.
Analyze(m, env, flg) ==
  IF env.fail = "Analyze" THEN Abort(Ev(m, "Analyze"))
  ELSE
    LET m1 == [Ev(m, "Analyze") EXCEPT
                 !.sdb.analyzed = TRUE,
                 !.sdb.variables = SymbolsOf(env.image, m.sdb.kind, m.sdb.range, 1)]
    IN Go(IF flg.dump_module_map THEN Ev(m1, "sdb_->Write") ELSE m1)

\* gen_module_ = new Module
CreateModule(m) ==
  Go([Ev(m, "new Module") EXCEPT !.gen_module = [NullModule EXCEPT !.exists = TRUE]])

\* XEEXPECTZERO(InjectGlobals()): InjectGlobals returns 0 on every path.
InjectStep(m) == Go(InjectGlobals(m))

\* Linker::LinkModules: a failing link leaves its message in error_message, and
\* its result is not looked at.
LinkModules(m, env) ==
  IF env.link.ok
  THEN Go([Ev(m, "LinkModules") EXCEPT
             !.gen_module.functions =
                @ \cup {[name |-> n, body |-> TRUE] : n \in env.link.fns}])
  ELSE Go([Ev(m, "LinkModules") EXCEPT !.error_message = "LinkModules"])

\* The functions code generation adds to the generated module.
GeneratedFunctions == {[name |-> f, body |-> TRUE] : f \in FunctionSymbols}

\* A variant that goes on after a code generation that failed.
Generate_IgnoreFailure(m, env) ==
  LET m1 == [Ev(m, "Generate") EXCEPT
               !.codegen = [exists |-> TRUE, sdb_id |-> m.sdb.id],
               !.counts.generate = @ + 1]
  IN IF env.fail = "Generate" THEN Go(m1)
     ELSE Go([m1 EXCEPT !.gen_module.functions = @ \cup GeneratedFunctions])

\* codegen_ = new ModuleGenerator, then codegen_->Generate().
Generate(m, env) ==
  LET m1 == [Ev(m, "Generate") EXCEPT
               !.codegen = [exists |-> TRUE, sdb_id |-> m.sdb.id],
               !.counts.generate = @ + 1]
  IN IF env.fail = "Generate" THEN Abort(m1)
     ELSE Go([m1 EXCEPT !.gen_module.functions = @ \cup GeneratedFunctions])

\* A variant that goes on when the dump file cannot be opened.
DumpPreopt_IgnoreFailure(m, env, flg) ==
  IF ~flg.dump_module_bitcode THEN Go(m)
  ELSE IF env.fail = "dump_preopt"
  THEN Go([Ev(m, "open preopt.bc") EXCEPT !.error_message = "open preopt.bc"])
  ELSE Go([Ev(Ev(m, "open preopt.bc"), "write preopt.bc") EXCEPT !.error_message = ""])

\* The dump of the module before optimization: raw_fd_ostream empties
\* error_message and puts a message in it when the file cannot be opened.
DumpPreopt(m, env, flg) ==
  IF ~flg.dump_module_bitcode THEN Go(m)
  ELSE IF env.fail = "dump_preopt"
  THEN Abort([Ev(m, "open preopt.bc") EXCEPT !.error_message = "open preopt.bc"])
  ELSE Go([Ev(Ev(m, "open preopt.bc"), "write preopt.bc") EXCEPT !.error_message = ""])

\* A variant of the block that generates the code before it injects the globals.
BuildModule_GenerateBeforeInject(m, env, flg) ==
  LET r1 == LoadSharedModule(m, env)
      r2 == IF r1.ok THEN Analyze(r1.m, env, flg) ELSE r1
      r3 == IF r2.ok THEN CreateModule(r2.m) ELSE r2
      r4 == IF r3.ok THEN Generate(r3.m, env) ELSE r3
      r5 == IF r4.ok THEN InjectStep(r4.m) ELSE r4
      r6 == IF r5.ok THEN LinkModules(r5.m, env) ELSE r5
  IN IF r6.ok THEN DumpPreopt(r6.m, env, flg) ELSE r6

\* The block that runs when there is no generated module.
BuildModule(m, env, flg) ==
  LET r1 == LoadSharedModule(m, env)
      r2 == IF r1.ok THEN Analyze(r1.m, env, flg) ELSE r1
      r3 == IF r2.ok THEN CreateModule(r2.m) ELSE r2
      r4 == IF r3.ok THEN InjectStep(r3.m) ELSE r3
      r5 == IF r4.ok THEN LinkModules(r4.m, env) ELSE r4
      r6 == IF r5.ok THEN Generate(r5.m, env) ELSE r5
  IN IF r6.ok THEN DumpPreopt(r6.m, env, flg) ELSE r6

Materialize(m, env) ==
  IF env.fail = "Materialize"
  THEN Abort([Ev(m, "MaterializeAllPermanently") EXCEPT
                !.error_message = "MaterializeAllPermanently"])
  ELSE Go([Ev(Ev(m, "MaterializeAllPermanently"), "setTargetTriple") EXCEPT
             !.gen_module.materialized = TRUE])

\* A variant that adds the first verifier whether or not optimization is enabled.
PassList_VerifierTwice(flg) ==
  <<"DataLayout", "Verifier">>
  \o (IF flg.optimize_ir_modules
      THEN <<"ModulePasses(O3, inline, vectorize)", "LTOPasses">>
      ELSE <<>>)
  \o <<"Verifier">>

\* A variant that adds no verifier after the optimization passes.
PassList_NoFinalVerifier(flg) ==
  <<"DataLayout">>
  \o (IF flg.optimize_ir_modules
      THEN <<"Verifier", "ModulePasses(O3, inline, vectorize)", "LTOPasses">>
      ELSE <<>>)

\* The passes added to the pass manager, in order.
PassList(flg) ==
  <<"DataLayout">>
  \o (IF flg.optimize_ir_modules
      THEN <<"Verifier", "ModulePasses(O3, inline, vectorize)", "LTOPasses">>
      ELSE <<>>)
  \o <<"Verifier">>

RunPasses(m, flg) == Go([Ev(m, "pm.run") EXCEPT !.passes = PassList(flg)])

\* The dump of the module after optimization.
DumpPostopt(m, env, flg) ==
  IF ~(flg.optimize_ir_modules /\ flg.dump_module_bitcode) THEN Go(m)
  ELSE IF env.fail = "dump_postopt"
  THEN Abort([Ev(m, "open postopt.bc") EXCEPT !.error_message = "open postopt.bc"])
  ELSE Go([Ev(Ev(m, "open postopt.bc"), "write postopt.bc") EXCEPT !.error_message = ""])

\* XEEXPECTZERO(Init())
InitModule(m, env) ==
  LET m1 == ExecInit(m, env)
  IN IF m1.status = "alive" /\ m1.init_result = 0 THEN Go(m1) ELSE Abort(m1)

\* A variant of the loop that does not leave the declarations out.
ForceJit_AllFunctions(m) ==
  Go([Ev(m, "ForceJIT") EXCEPT
        !.engine.compiled = @ \cup {f.name : f \in m.gen_module.functions}])

\* The loop that forces the JIT of every function that is not a declaration.
ForceJit(m) ==
  Go([Ev(m, "ForceJIT") EXCEPT
        !.engine.compiled = @ \cup {f.name : f \in {g \in m.gen_module.functions : g.body}}])

\* A variant that forces the JIT before it initializes the module.
FinishModule_JitBeforeInit(r, env, flg) ==
  LET r1 == IF r.ok THEN Materialize(r.m, env) ELSE r
      r2 == IF r1.ok THEN RunPasses(r1.m, flg) ELSE r1
      r3 == IF r2.ok THEN DumpPostopt(r2.m, env, flg) ELSE r2
      r4 == IF r3.ok THEN ForceJit(r3.m) ELSE r3
  IN IF r4.ok THEN InitModule(r4.m, env) ELSE r4

\* What follows the block: materialize, optimize, dump, Init, force the JIT.
FinishModule(r, env, flg) ==
  LET r1 == IF r.ok THEN Materialize(r.m, env) ELSE r
      r2 == IF r1.ok THEN RunPasses(r1.m, flg) ELSE r1
      r3 == IF r2.ok THEN DumpPostopt(r2.m, env, flg) ELSE r2
      r4 == IF r3.ok THEN InitModule(r3.m, env) ELSE r3
  IN IF r4.ok THEN ForceJit(r4.m) ELSE r4

\* A variant of Prepare that does not look whether a generated module exists.
Prepare_AlwaysBuild(m, env, flg) ==
  LET m0 == [m EXCEPT !.trace = <<"Prepare">>, !.passes = <<>>, !.error_message = ""]
      r0 == BuildModule(m0, env, flg)
      r1 == FinishModule(r0, env, flg)
  IN IF r1.m.status # "alive" THEN r1.m
     ELSE [r1.m EXCEPT !.result_code = IF r1.ok THEN 0 ELSE 1]

\* A variant of Prepare that links the thunk module again when a generated module exists.
Prepare_RelinkExisting(m, env, flg) ==
  LET m0 == [m EXCEPT !.trace = <<"Prepare">>, !.passes = <<>>, !.error_message = ""]
      r0 == IF ~m0.gen_module.exists THEN BuildModule(m0, env, flg) ELSE LinkModules(m0, env)
      r1 == FinishModule(r0, env, flg)
  IN IF r1.m.status # "alive" THEN r1.m
     ELSE [r1.m EXCEPT !.result_code = IF r1.ok THEN 0 ELSE 1]

\* A variant of Prepare that injects the globals again when a generated module exists.
Prepare_ReinjectGlobals(m, env, flg) ==
  LET m0 == [m EXCEPT !.trace = <<"Prepare">>, !.passes = <<>>, !.error_message = ""]
      r0 == IF ~m0.gen_module.exists THEN BuildModule(m0, env, flg) ELSE InjectStep(m0)
      r1 == FinishModule(r0, env, flg)
  IN IF r1.m.status # "alive" THEN r1.m
     ELSE [r1.m EXCEPT !.result_code = IF r1.ok THEN 0 ELSE 1]

\* A variant of Prepare that hands on what Init returned when Init fails.
Prepare_ReturnsInitResult(m, env, flg) ==
  LET m0 == [m EXCEPT !.trace = <<"Prepare">>, !.passes = <<>>, !.error_message = ""]
      r0 == IF ~m0.gen_module.exists THEN BuildModule(m0, env, flg) ELSE Go(m0)
      r1 == FinishModule(r0, env, flg)
      ran_init == \E i \in DOMAIN r1.m.trace : r1.m.trace[i] = "Init"
  IN IF r1.m.status # "alive" THEN r1.m
     ELSE [r1.m EXCEPT !.result_code = IF r1.ok THEN 0
                                       ELSE IF ran_init THEN r1.m.init_result ELSE 1]

Prepare(m, env, flg) ==
  LET m0 == [m EXCEPT !.trace = <<"Prepare">>, !.passes = <<>>, !.error_message = ""]
      r0 == IF ~m0.gen_module.exists THEN BuildModule(m0, env, flg) ELSE Go(m0)
      r1 == FinishModule(r0, env, flg)
  IN IF r1.m.status # "alive" THEN r1.m
     ELSE [r1.m EXCEPT !.result_code = IF r1.ok THEN 0 ELSE 1]

\* sdb_ = new XexSymbolDatabase / new RawSymbolDatabase
NewSdb(m, id, kind, range) ==
  [m EXCEPT !.sdb = [id |-> id, kind |-> kind, range |-> range, analyzed |-> FALSE,
                     variables |-> <<>>]]

(***************************************************************************)
(* What the collaborators answer during one call.                          *)
(***************************************************************************)
EntryPoints == {"xe_module_init", "xe_module_uninit"}

\* The steps of the block that fail fatally.  A call has at most one failing
\* step in it: the steps after the first failing one do not run.
BuildFailPoints == {"getFile", "ParseBitcodeFile", "Analyze", "Generate", "dump_preopt"}
EarlyFailPoints == {"getFile", "ParseBitcodeFile", "Analyze"}

\* The entry points the link brings in from the thunk module (none when it fails).
LinkOutcomes ==
  {[ok |-> FALSE, fns |-> {}]} \cup {[ok |-> TRUE, fns |-> s] : s \in SUBSET EntryPoints}

\* The 32-bit value xe_module_init returns.
EntryResults == {<<0, 0, 0, 0>>, <<0, 0, 0, 1>>, <<255, 255, 255, 255>>}

\* How the process dies when a null function is run.
UBOutcomes == {"assertion failure", "segmentation fault"}

NoImage == [i \in 1 .. NumSlots |-> NoExport]
NoLink == [ok |-> FALSE, fns |-> {}]

\* The answers that make a difference to a Prepare call on m: an answer is
\* drawn only for the steps the call gets to.
PrepareEnvs(m, flg) ==
  LET building == ~m.gen_module.exists
      fails ==
        {"none", "Materialize"}
        \cup (IF building THEN BuildFailPoints \ {"dump_preopt"} ELSE {})
        \cup (IF building /\ flg.dump_module_bitcode THEN {"dump_preopt"} ELSE {})
        \cup (IF flg.optimize_ir_modules /\ flg.dump_module_bitcode
              THEN {"dump_postopt"} ELSE {})
      Analyzes(f) == building /\ f \notin EarlyFailPoints /\ m.sdb.kind = "xex"
      Links(f) == building /\ f \notin EarlyFailPoints
      HasInit(l) == IF building THEN "xe_module_init" \in l.fns
                                ELSE HasFunction(m, "xe_module_init")
  IN UNION {
       UNION {
         UNION {
           {[fail |-> f, image |-> img, link |-> l, getvars_ok |-> g, entry_ret |-> e,
             ub |-> u] :
              g \in (IF f = "none" THEN BOOLEAN ELSE {TRUE}),
              e \in (IF f = "none" /\ HasInit(l) THEN EntryResults ELSE {<<0, 0, 0, 0>>}),
              u \in (IF f = "none" /\ ~HasInit(l) THEN UBOutcomes ELSE {"segmentation fault"})}
           : l \in (IF Links(f) THEN LinkOutcomes ELSE {NoLink}) }
         : img \in (IF Analyzes(f) THEN Images ELSE {NoImage}) }
       : f \in fails }

(***************************************************************************)
(* Actions.                                                                *)
(***************************************************************************)
Become(m) ==
  /\ gen_module' = m.gen_module
  /\ sdb' = m.sdb
  /\ codegen' = m.codegen
  /\ engine' = m.engine
  /\ memory' = m.memory
  /\ owned' = m.owned
  /\ status' = m.status
  /\ counts' = m.counts
  /\ trace' = m.trace
  /\ passes' = m.passes
  /\ writes' = m.writes
  /\ warnings' = m.warnings
  /\ result_code' = m.result_code
  /\ init_result' = m.init_result
  /\ entry_ret' = m.entry_ret
  /\ run_args' = m.run_args
  /\ error_message' = m.error_message

PrepareUserModule ==
  /\ status = "alive"
  /\ calls < MaxCalls
  /\ LET m == NewSdb(Self, calls + 1, "xex", <<0, 0>>) IN
       \E env \in PrepareEnvs(m, flags) : \E r \in {Prepare(m, env, flags)} : Become(r)
  /\ calls' = calls + 1
  /\ UNCHANGED <<flags, tvars, ivars, fsvars>>

PrepareRawBinary ==
  /\ status = "alive"
  /\ calls < MaxCalls
  /\ \E range \in RawRanges :
       LET m == NewSdb(Self, calls + 1, "raw", range) IN
         \E env \in PrepareEnvs(m, flags) : \E r \in {Prepare(m, env, flags)} : Become(r)
  /\ calls' = calls + 1
  /\ UNCHANGED <<flags, tvars, ivars, fsvars>>

Destroy ==
  /\ status = "alive"
  /\ \E ub \in (IF gen_module.exists /\ ~HasFunction(Self, "xe_module_uninit")
                THEN UBOutcomes ELSE {"segmentation fault"}) :
       \E r \in {Destructor(Self, [ub |-> ub])} : Become(r)
  /\ UNCHANGED <<flags, calls, tvars, ivars, fsvars>>

Next == PrepareUserModule \/ PrepareRawBinary \/ Destroy

Spec == Init /\ [][Next]_vars

(***************************************************************************)
(* Reading the trace.                                                      *)
(***************************************************************************)
Has(e) == \E i \in DOMAIN trace : trace[i] = e

\* The place of the first e in the trace, 0 when there is none.
Pos(e) == IF Has(e) THEN CHOOSE i \in DOMAIN trace : trace[i] = e /\ \A j \in 1 .. (i - 1) : trace[j] # e
          ELSE 0

Count(e) == Cardinality({i \in DOMAIN trace : trace[i] = e})

\* The last operation was a Prepare call / the destructor.
InPrepare == Len(trace) > 0 /\ trace[1] = "Prepare"

(***************************************************************************)
(* C1: over any sequence of Prepare() calls code generation runs once:     *)
(* it has run exactly once when a generated module exists and not at all   *)
(* when none does, and a Prepare() call made when a generated module       *)
(* exists neither runs Generate again nor changes the function set of the  *)
(* generated module.                                                       *)
(***************************************************************************)
C1_GenerateExactlyOnce ==
  /\ [](/\ counts.generate <= 1
        /\ gen_module.exists <=> counts.generate = 1)
  /\ [][(gen_module.exists /\ calls' = calls + 1)
          => /\ counts'.generate = counts.generate
             /\ gen_module'.functions = gen_module.functions
             /\ \A i \in DOMAIN trace' : trace'[i] # "Generate"]_vars

\* A second Prepare() has succeeded on a module that the first one generated.
C1_Witness ==
  /\ calls = 2
  /\ InPrepare
  /\ result_code = 0
  /\ gen_module.exists
  /\ ~Has("Generate")
  /\ counts.generate = 1

(***************************************************************************)
(* C2: a Prepare() that creates the generated module injects the globals   *)
(* and trampolines, then links the runtime support module, then generates  *)
(* the code, in that order; Generate never starts on a module in which     *)
(* InjectGlobals has not completed.                                        *)
(***************************************************************************)
C2_InjectLinkGenerate ==
  /\ \A i \in DOMAIN trace :
       trace[i] = "new Module"
         => /\ Len(trace) >= i + 3
            /\ trace[i + 1] = "InjectGlobals"
            /\ trace[i + 2] = "LinkModules"
            /\ trace[i + 3] = "Generate"
  /\ \A i \in DOMAIN trace :
       trace[i] = "Generate"
         => /\ \E j \in 1 .. (i - 1) : \E k \in (j + 1) .. (i - 1) :
                 trace[j] = "InjectGlobals" /\ trace[k] = "LinkModules"
            /\ MemoryBaseGlobal \in gen_module.globals
            /\ Trampolines \subseteq engine.mappings
  /\ counts.generate > 0 => counts.inject > 0

\* A Prepare() that created the module and generated its code.
C2_Witness ==
  /\ InPrepare
  /\ Has("new Module")
  /\ Has("Generate")
  /\ result_code = 0

(***************************************************************************)
(* The variable symbols Init reads, by what they are bound to.             *)
(***************************************************************************)
Variables == {sdb.variables[i] : i \in DOMAIN sdb.variables}

IsVariableExport(var) == var.kernel_export.bound /\ var.kernel_export.type = "Variable"
IsImplementedVariable(var) == IsVariableExport(var) /\ var.kernel_export.is_implemented
IsUnimplementedVariable(var) == IsVariableExport(var) /\ ~var.kernel_export.is_implemented

\* The slot at address holds the bytes b1 b2 b3 b4, in the order of the addresses.
SlotHolds(address, b1, b2, b3, b4) ==
  /\ memory[address] = b1
  /\ memory[address + 1] = b2
  /\ memory[address + 2] = b3
  /\ memory[address + 3] = b4

\* The binding loop of Init ran in the last operation.
Bound == InPrepare /\ Has("bind_variables")

(***************************************************************************)
(* C3 as the claim states it: Init() begins only after the forced          *)
(* compilation of every function with a body; no guest code is run through *)
(* the engine before the eager compilation stage has completed.            *)
(***************************************************************************)
C3_InitAfterForcedCompilation ==
  InPrepare /\ Has("Init")
    => /\ Has("ForceJIT")
       /\ Pos("ForceJIT") < Pos("Init")
       /\ {f.name : f \in {g \in gen_module.functions : g.body}} \subseteq engine.compiled

(***************************************************************************)
(* C3 amended: in every Prepare() the forced compilation comes after       *)
(* Init(): it runs only once Init() has bound the variables, run the       *)
(* static constructors and the guest entry point, and returned 0; a        *)
(* Prepare() whose Init() does not return 0 force-compiles nothing, and no *)
(* function is compiled eagerly before some Init() has returned 0.         *)
(***************************************************************************)
C3_ForcedCompilationAfterInit ==
  /\ InPrepare /\ Has("ForceJIT")
       => /\ Has("Init")
          /\ Pos("Init") < Pos("xe_module_init")
          /\ Pos("xe_module_init") < Pos("ForceJIT")
          /\ init_result = 0
          /\ result_code = 0
          /\ {f.name : f \in {g \in gen_module.functions : g.body}} \subseteq engine.compiled
  /\ InPrepare /\ Has("Init") /\ (status = "faulted" \/ init_result # 0) => ~Has("ForceJIT")
  /\ engine.compiled # {} => counts.init > 0

\* A Prepare() that ran Init(), got 0 from it and then compiled the guest function.
C3_Witness ==
  /\ InPrepare
  /\ Has("ForceJIT")
  /\ Pos("Init") < Pos("ForceJIT")
  /\ "sub_1000" \in engine.compiled

(***************************************************************************)
(* C4: after the binding step of Init(), the slot of every variable symbol *)
(* bound to an implemented variable export holds the export's value,       *)
(* variable_ptr, most significant byte first (the guest's byte order).     *)
(***************************************************************************)
C4_ImplementedVariableBigEndian ==
  Bound =>
    \A var \in Variables :
      IsImplementedVariable(var) =>
        \A k \in 0 .. (SlotBytes - 1) :
          memory[var.address + k] = var.kernel_export.variable_ptr[k + 1]

\* Init() has bound the implemented export 0x12345678: the slot reads 12 34 56 78.
C4_Witness ==
  /\ Bound
  /\ \E var \in Variables :
       /\ IsImplementedVariable(var)
       /\ var.kernel_export.variable_ptr = <<18, 52, 86, 120>>
       /\ SlotHolds(var.address, 18, 52, 86, 120)

(***************************************************************************)
(* C5: for every variable symbol bound to a variable export that is not    *)
(* implemented, one Init() run leaves 0xDEADBEEF in guest byte order in    *)
(* the symbol's slot and logs one warning naming the export (one per such  *)
(* symbol, and no others); Init() does not fail for it: it goes on to the  *)
(* static constructors and to the call of the entry point.                 *)
(***************************************************************************)
C5_UnimplementedVariableSentinel ==
  Bound =>
    /\ \A var \in Variables :
         IsUnimplementedVariable(var) =>
           /\ SlotHolds(var.address, 222, 173, 190, 239)
           /\ Cardinality({j \in DOMAIN warnings : warnings[j] = var.kernel_export.name})
                = Cardinality({v \in Variables :
                                 /\ IsUnimplementedVariable(v)
                                 /\ v.kernel_export.name = var.kernel_export.name})
    /\ Len(warnings) = Cardinality({v \in Variables : IsUnimplementedVariable(v)})
    /\ Pos("bind_variables") + 1 = Pos("static_constructors")
    /\ \/ Pos("static_constructors") + 1 = Pos("xe_module_init")
       \/ Pos("static_constructors") + 1 = Pos("runFunction(NULL)")
    /\ (\E f \in gen_module.functions : f.name = "xe_module_init")
         => status = "alive" /\ init_result = SExt32(entry_ret)

\* Init() has met an unimplemented variable export, warned once, and returned
\* the 0 of the entry point; Prepare() has succeeded.
C5_Witness ==
  /\ Bound
  /\ \E var \in Variables :
       IsUnimplementedVariable(var) /\ SlotHolds(var.address, 222, 173, 190, 239)
  /\ warnings = <<"ExLoadedCommandLine">>
  /\ Has("xe_module_init")
  /\ init_result = 0
  /\ result_code = 0

(***************************************************************************)
(* C6: the binding step writes guest memory only in the slots of variable  *)
(* symbols bound to a variable export; the slot of a symbol bound to a     *)
(* function export (implemented or not) or to no export is unchanged and   *)
(* draws no warning, and all other guest memory is unchanged.              *)
(***************************************************************************)
WrittenSlot(a) ==
  \E i \in DOMAIN sdb'.variables :
    /\ sdb'.variables[i].kernel_export.bound
    /\ sdb'.variables[i].kernel_export.type = "Variable"
    /\ a >= sdb'.variables[i].address
    /\ a < sdb'.variables[i].address + SlotBytes

\* The step ran the binding loop of Init.
BindsInStep == \E i \in DOMAIN trace' : trace'[i] = "bind_variables"

C6_BindingFrame ==
  [][/\ \A a \in Addrs : memory'[a] # memory[a] => BindsInStep /\ WrittenSlot(a)
     /\ BindsInStep =>
          /\ \A i \in DOMAIN writes' : WrittenSlot(writes'[i])
          /\ \A j \in DOMAIN warnings' :
               \E i \in DOMAIN sdb'.variables :
                 /\ sdb'.variables[i].kernel_export.bound
                 /\ sdb'.variables[i].kernel_export.type = "Variable"
                 /\ ~sdb'.variables[i].kernel_export.is_implemented
                 /\ sdb'.variables[i].kernel_export.name = warnings'[j]]_vars

\* Init() has bound one slot and passed over the slot of an implemented function
\* export, which still holds its initial bytes.
C6_Witness ==
  /\ Bound
  /\ \E var \in Variables :
       /\ var.kernel_export.bound
       /\ var.kernel_export.type = "Function"
       /\ var.kernel_export.is_implemented
       /\ \A k \in 0 .. (SlotBytes - 1) :
            memory[var.address + k] = InitialMemory[var.address + k]
  /\ \E var \in Variables : IsImplementedVariable(var)
  /\ Len(writes) = 1
  /\ warnings = <<>>

(***************************************************************************)
(* C7: Init() binds the variables, then runs the static constructors, then *)
(* calls xe_module_init with no arguments, and returns the entry point's   *)
(* 32-bit result read as a signed integer.                                 *)
(***************************************************************************)
C7_InitOrderAndResult ==
  InPrepare /\ Has("Init") =>
    /\ Has("bind_variables") =>
         /\ Pos("bind_variables") = Pos("Init") + 1
         /\ Pos("static_constructors") = Pos("Init") + 2
         /\ Count("bind_variables") = 1
         /\ Count("static_constructors") = 1
    /\ Has("xe_module_init") =>
         /\ Pos("xe_module_init") = Pos("Init") + 3
         /\ Count("xe_module_init") = 1
         /\ run_args = <<>>
         /\ entry_ret = <<0, 0, 0, 0>> => init_result = 0
         /\ entry_ret = <<0, 0, 0, 1>> => init_result = 1
         /\ entry_ret = <<255, 255, 255, 255>> => init_result = 0 - 1
    /\ ~Has("bind_variables") => ~Has("static_constructors") /\ ~Has("xe_module_init")

\* The entry point has returned 0xFFFFFFFF and Init() has returned -1.
C7_Witness ==
  /\ InPrepare
  /\ Has("xe_module_init")
  /\ entry_ret = <<255, 255, 255, 255>>
  /\ init_result = 0 - 1
  /\ result_code = 1

(***************************************************************************)
(* C8 as the claim states it: when the generated module holds no           *)
(* xe_module_init and no xe_module_uninit, Init() returns 0 and Uninit()   *)
(* completes; neither asks the engine to run a function that is not there. *)
(***************************************************************************)
NoEntryPoints ==
  /\ gen_module.exists
  /\ \A f \in gen_module.functions : f.name \notin EntryPoints

C8_AbsentEntryPointsAreSkipped ==
  /\ NoEntryPoints /\ InPrepare /\ Has("static_constructors")
       => status = "alive" /\ init_result = 0 /\ ~Has("runFunction(NULL)")
  /\ NoEntryPoints /\ ~InPrepare /\ Has("Uninit")
       => status = "destroyed" /\ Has("Uninit returns 0") /\ ~Has("runFunction(NULL)")

(***************************************************************************)
(* C9: the destructor of an object with no generated module runs neither   *)
(* Uninit() nor the detach; with a generated module, Uninit() completes    *)
(* before removeModule, and removeModule before the path strings and the   *)
(* guest memory reference are released.                                    *)
(***************************************************************************)
InDestructor == status = "destroyed" \/ (status = "faulted" /\ ~InPrepare)

C9_DestructorOrder ==
  InDestructor =>
    /\ ~gen_module.exists
         => ~Has("Uninit") /\ ~Has("removeModule") /\ ~engine.removed /\ counts.uninit = 0
    /\ gen_module.exists => trace[1] = "Uninit"
    /\ Has("removeModule")
         => /\ Has("Uninit returns 0")
            /\ Pos("Uninit returns 0") < Pos("removeModule")
    /\ \A e \in {"free(module_path_)", "free(module_name_)", "xe_memory_release(memory_)"} :
         Has(e) => (gen_module.exists => Has("removeModule") /\ Pos("removeModule") < Pos(e))
    /\ status = "destroyed"
         => /\ Has("free(module_path_)") /\ Has("free(module_name_)")
            /\ Has("xe_memory_release(memory_)")
            /\ engine.removed = gen_module.exists
    /\ status = "faulted"
         => ~engine.removed /\ owned.memory /\ owned.module_name /\ owned.module_path

\* An object with a generated module has been destroyed: torn down, detached, released.
C9_Witness ==
  /\ status = "destroyed"
  /\ gen_module.exists
  /\ engine.removed
  /\ Has("xe_module_uninit")
  /\ ~owned.memory

(***************************************************************************)
(* C10 as the claim states it: in every state reached after a failed, a    *)
(* partial or a successful Prepare(), Uninit() calls the exit entry point  *)
(* only if the module has one, then runs the static destructors, and       *)
(* returns 0 without faulting.                                             *)
(***************************************************************************)
C10_UninitNeverFaults ==
  ~InPrepare /\ Has("Uninit") =>
    /\ status # "faulted"
    /\ Has("xe_module_uninit") <=> (\E f \in gen_module.functions : f.name = "xe_module_uninit")
    /\ Has("static_destructors")
    /\ Has("Uninit returns 0")
    /\ Pos("static_destructors") < Pos("Uninit returns 0")

(***************************************************************************)
(* The stages of a Prepare() call, read from the trace of the call.        *)
(***************************************************************************)
\* The steps of Prepare that come after the analysis of the symbol database.
StagesAfterAnalyze ==
  {"new Module", "InjectGlobals", "LinkModules", "Generate", "open preopt.bc",
   "MaterializeAllPermanently", "pm.run", "open postopt.bc", "Init", "ForceJIT"}

\* The steps of Prepare that come after code generation.
StagesAfterGenerate ==
  {"open preopt.bc", "MaterializeAllPermanently", "pm.run", "open postopt.bc", "Init",
   "ForceJIT"}

LastEvent == trace[Len(trace)]

\* The last operation was a Prepare() in which sdb_->Analyze() failed.
AnalysisFailed == InPrepare /\ Has("Analyze") /\ ~sdb.analyzed

\* The last operation was a Prepare() in which codegen_->Generate() failed.
GenerationFailed ==
  InPrepare /\ Has("Generate") /\ ~(GeneratedFunctions \subseteq gen_module.functions)

(***************************************************************************)
(* C11: when the analysis of the symbol database fails in Prepare(), the   *)
(* call returns nonzero and there is no generated module afterwards: no    *)
(* globals or trampolines have been injected, and no link, code            *)
(* generation, optimization, Init() or compilation has run.                *)
(***************************************************************************)
C11_AnalysisFailureLeavesNoModule ==
  AnalysisFailed
    => /\ result_code # 0
       /\ gen_module = NullModule
       /\ engine.mappings = {}
       /\ engine.compiled = {}
       /\ counts = [generate |-> 0, inject |-> 0, init |-> 0, uninit |-> 0]
       /\ passes = <<>>
       /\ \A e \in StagesAfterAnalyze : ~Has(e)

\* The analysis failed in the second of two calls.
C11_Witness ==
  /\ AnalysisFailed
  /\ calls = 2
  /\ LastEvent = "Analyze"

(***************************************************************************)
(* C12: when code generation fails in a Prepare() call, that call returns  *)
(* nonzero and runs none of the later stages: no materialization, no       *)
(* optimization or verification pass, no Init() and no forced compilation. *)
(***************************************************************************)
C12_GenerationFailureStopsPrepare ==
  GenerationFailed
    => /\ result_code # 0
       /\ LastEvent = "Generate"
       /\ \A e \in StagesAfterGenerate : ~Has(e)
       /\ ~gen_module.materialized
       /\ passes = <<>>
       /\ counts.init = 0
       /\ engine.compiled = {}

\* Code generation failed in a call that had injected the globals and linked.
C12_Witness ==
  /\ GenerationFailed
  /\ Has("InjectGlobals")
  /\ Has("LinkModules")
  /\ gen_module.exists
  /\ codegen.exists

(***************************************************************************)
(* C13: a Prepare() after a failed one performs the stages that had not    *)
(* completed: no Prepare() materializes, optimizes, initializes or         *)
(* compiles a generated module in which code generation has not completed  *)
(* (after a first call that failed in code generation, the next call       *)
(* generates the code first).                                              *)
(***************************************************************************)
C13_RetryCompletesGeneration ==
  (InPrepare /\ \E e \in {"MaterializeAllPermanently", "pm.run", "Init", "ForceJIT"} : Has(e))
    => GeneratedFunctions \subseteq gen_module.functions

(***************************************************************************)
(* C14: the globals and trampolines are injected at most once per          *)
(* ExecModule, each trampoline is bound in the engine to one native        *)
(* address, and no operation on an ExecModule whose generated module       *)
(* stays attached injects again or changes a binding.                      *)
(***************************************************************************)
C14_TrampolinesBoundOnce ==
  /\ [](/\ counts.inject <= 1
        /\ gen_module.exists => engine.mappings = Trampolines
        /\ ~gen_module.exists => engine.mappings = {}
        /\ Count("InjectGlobals") <= 1)
  /\ [][(gen_module.exists /\ ~engine'.removed)
          => /\ engine'.mappings = engine.mappings
             /\ counts'.inject = counts.inject
             /\ \A i \in DOMAIN trace' : trace'[i] # "InjectGlobals"]_vars

\* A second Prepare() has run Init() on the module the first one injected into.
C14_Witness ==
  /\ calls = 2
  /\ InPrepare
  /\ Has("Init")
  /\ ~Has("InjectGlobals")
  /\ counts.inject = 1
  /\ engine.mappings = Trampolines

(***************************************************************************)
(* The stage a Prepare() call failed in, read from the last step it made.  *)
(***************************************************************************)
FailedStage(tr) ==
  LET last == tr[Len(tr)] IN
    CASE last \in {"getFile", "ParseBitcodeFile"} -> "RuntimeModuleLoad"
      [] last = "Analyze" -> "Analysis"
      [] last = "Generate" -> "Generation"
      [] last \in {"open preopt.bc", "open postopt.bc"} -> "Dump"
      [] last = "MaterializeAllPermanently" -> "Materialization"
      [] last \in {"Init", "xe_module_init"} -> "Init"
      [] OTHER -> "none"

\* The error kinds C15 names.
ErrorKinds == {"RuntimeModuleLoad", "Analysis", "Generation", "Materialization", "Init"}

(***************************************************************************)
(* C15 as stated: the value Prepare() returns tells the failing stage      *)
(* apart: two calls in a row that fail in different stages (runtime module *)
(* load, analysis, generation, materialization, Init) return different     *)
(* values.                                                                 *)
(***************************************************************************)
C15_ErrorKindsDistinguishable ==
  [][(/\ InPrepare
      /\ status' = "alive"
      /\ calls' = calls + 1
      /\ FailedStage(trace) \in ErrorKinds
      /\ FailedStage(trace') \in ErrorKinds
      /\ FailedStage(trace) # FailedStage(trace'))
       => result_code' # result_code]_vars

(***************************************************************************)
(* C15: a Prepare() that returns gives 0 when every stage succeeded and 1  *)
(* when any stage failed, whichever it was; what Init() returned is not    *)
(* handed on.                                                              *)
(***************************************************************************)
C15_FailureReturnsOne ==
  (InPrepare /\ status = "alive")
    => /\ result_code \in {0, 1}
       /\ result_code = 0 <=> FailedStage(trace) = "none"
       /\ result_code = 0 <=> LastEvent = "ForceJIT"

\* Init() returned -1 and Prepare() returned 1.
C15_Witness ==
  /\ InPrepare
  /\ status = "alive"
  /\ FailedStage(trace) = "Init"
  /\ init_result = 0 - 1
  /\ result_code = 1

(***************************************************************************)
(* The last operation was a Prepare() in which a dump file could not be    *)
(* opened / in which the link failed.                                      *)
(***************************************************************************)
DumpFailed == InPrepare /\ error_message \in {"open preopt.bc", "open postopt.bc"}

LinkFailed == InPrepare /\ Has("LinkModules") /\ error_message = "LinkModules"

(***************************************************************************)
(* C16 as stated: a dump of the module that cannot be written is not       *)
(* fatal: Prepare() goes on to the stage after the dump.                   *)
(***************************************************************************)
C16_DumpFailureNonFatal ==
  DumpFailed => LastEvent \notin {"open preopt.bc", "open postopt.bc"}

(***************************************************************************)
(* C16: a dump file of the module that cannot be opened is fatal:          *)
(* Prepare() returns 1 and the failed open is its last step, so no later   *)
(* stage runs in that call.                                                *)
(***************************************************************************)
C16_DumpFailureIsFatal ==
  DumpFailed
    => /\ result_code = 1
       /\ LastEvent = error_message
       /\ ~Has("Init")
       /\ ~Has("ForceJIT")
       /\ error_message = "open preopt.bc"
            => (~gen_module.materialized /\ passes = <<>> /\ ~Has("MaterializeAllPermanently"))

\* The dump before optimization could not be opened, after the code was generated.
C16_Witness ==
  /\ DumpFailed
  /\ error_message = "open preopt.bc"
  /\ Has("Generate")
  /\ GeneratedFunctions \subseteq gen_module.functions
  /\ result_code = 1

(***************************************************************************)
(* C17: a link of the runtime support module that fails makes Prepare()    *)
(* return nonzero, with the link as its last step: neither code generation *)
(* nor any later stage runs.                                               *)
(***************************************************************************)
C17_LinkFailureAbortsPrepare ==
  LinkFailed
    => /\ result_code # 0
       /\ LastEvent = "LinkModules"
       /\ ~Has("Generate")

(***************************************************************************)
(* C18: in every Prepare() that runs the pass manager the last pass is a   *)
(* verifier, with optimization enabled and disabled; with optimization     *)
(* disabled no inlining, vectorization or link-time optimization pass is   *)
(* run.                                                                    *)
(***************************************************************************)
OptimizationPasses == {"ModulePasses(O3, inline, vectorize)", "LTOPasses"}

C18_VerifierIsLastPass ==
  (InPrepare /\ Has("pm.run"))
    => /\ Len(passes) > 0
       /\ passes[Len(passes)] = "Verifier"
       /\ ~flags.optimize_ir_modules
            => \A i \in DOMAIN passes : passes[i] \notin OptimizationPasses
       /\ flags.optimize_ir_modules
            => \A p \in OptimizationPasses : \E i \in DOMAIN passes : passes[i] = p

\* The pass manager ran with optimization enabled.
C18_Witness ==
  /\ InPrepare
  /\ Has("pm.run")
  /\ flags.optimize_ir_modules
  /\ Len(passes) = 5
  /\ passes[4] = "LTOPasses"

(***************************************************************************)
(* C19: when Prepare() returns 0, every function of the generated module   *)
(* that has a body has been handed to the engine for compilation, and no   *)
(* function that is only a declaration (the trampolines) has been.         *)
(***************************************************************************)
C19_BodiesCompiledDeclarationsNot ==
  (InPrepare /\ status = "alive" /\ result_code = 0)
    => /\ \A f \in gen_module.functions : f.body <=> f.name \in engine.compiled
       /\ \A t \in Trampolines : t.name \notin engine.compiled

\* A Prepare() returned 0 on a module with generated code and declarations.
C19_Witness ==
  /\ InPrepare
  /\ status = "alive"
  /\ result_code = 0
  /\ Has("ForceJIT")
  /\ \E f \in GeneratedFunctions : f.name \in engine.compiled
  /\ \E f \in gen_module.functions : ~f.body

(***************************************************************************)
(* The steps only the block that builds the generated module makes.        *)
(***************************************************************************)
BuildOnlyStages ==
  {"getFile", "ParseBitcodeFile", "Analyze", "sdb_->Write", "new Module", "InjectGlobals",
   "Generate", "open preopt.bc", "write preopt.bc"}

(***************************************************************************)
(* C21 as stated: a Prepare() made when a generated module exists makes    *)
(* none of the steps that build the module, and goes on to link,           *)
(* materialize, optimize and Init on the module, which it leaves as it is. *)
(***************************************************************************)
C21_ExistingModuleIsRelinked ==
  [][(gen_module.exists /\ calls' = calls + 1)
       => /\ \A i \in DOMAIN trace' : trace'[i] \notin BuildOnlyStages
          /\ trace'[2] = "LinkModules"
          /\ gen_module'.functions = gen_module.functions
          /\ gen_module'.globals = gen_module.globals]_vars

(***************************************************************************)
(* C21: a Prepare() made when a generated module exists makes none of the  *)
(* steps that build the module, the link of the runtime support module     *)
(* included: its first step is the materialization, and it leaves the      *)
(* functions, the globals and the code generator of the module as they     *)
(* are.                                                                    *)
(***************************************************************************)
C21_ExistingModuleSkipsBlock ==
  [][(gen_module.exists /\ calls' = calls + 1)
       => /\ \A i \in DOMAIN trace' : trace'[i] \notin BuildOnlyStages \cup {"LinkModules"}
          /\ trace'[1] = "Prepare"
          /\ trace'[2] = "MaterializeAllPermanently"
          /\ gen_module'.exists
          /\ gen_module'.functions = gen_module.functions
          /\ gen_module'.globals = gen_module.globals
          /\ codegen' = codegen
          /\ counts'.generate = counts.generate
          /\ counts'.inject = counts.inject]_vars

\* A second Prepare() started at the materialization and got to Init().
C21_Witness ==
  /\ calls = 2
  /\ InPrepare
  /\ trace[2] = "MaterializeAllPermanently"
  /\ Has("pm.run")
  /\ Has("Init")
  /\ gen_module.exists

(***************************************************************************)
(* C22 as stated: in both configurations the passes start with a verifier  *)
(* that comes before every optimization pass, and end with a second        *)
(* verifier.                                                               *)
(***************************************************************************)
Verifiers == {i \in DOMAIN passes : passes[i] = "Verifier"}

C22_TwoVerifiersAlways ==
  (InPrepare /\ Has("pm.run"))
    => /\ Cardinality(Verifiers) = 2
       /\ \E i \in Verifiers : \A j \in DOMAIN passes :
            passes[j] \in OptimizationPasses => i < j

(***************************************************************************)
(* C22: the pass manager gets the data layout first; with optimization     *)
(* enabled a verifier, the optimization passes and a second verifier       *)
(* follow, in that order; with optimization disabled one verifier follows  *)
(* and nothing else.                                                       *)
(***************************************************************************)
C22_VerifierOnceOrTwice ==
  (InPrepare /\ Has("pm.run"))
    => /\ passes[1] = "DataLayout"
       /\ flags.optimize_ir_modules
            => passes = <<"DataLayout", "Verifier", "ModulePasses(O3, inline, vectorize)",
                          "LTOPasses", "Verifier">>
       /\ ~flags.optimize_ir_modules => passes = <<"DataLayout", "Verifier">>

\* The pass manager ran with optimization disabled.
C22_Witness ==
  /\ InPrepare
  /\ Has("pm.run")
  /\ ~flags.optimize_ir_modules
  /\ Cardinality(Verifiers) = 1

(***************************************************************************)
(* C24: the memory base is published at injection as the constant global   *)
(* xe_memory_base, aligned to 64 bytes, whose value is the address of      *)
(* guest offset 0; it is the only global, no later operation changes it,   *)
(* and the object holds its reference to the guest memory from             *)
(* construction until after the generated module has been detached.        *)
(***************************************************************************)
C24_MemoryBasePublishedOnce ==
  /\ [](/\ gen_module.exists
             => /\ gen_module.globals = {MemoryBaseGlobal}
                /\ \A g \in gen_module.globals :
                     /\ g.name = "xe_memory_base"
                     /\ g.constant
                     /\ g.alignment = 64
                     /\ g.value = "xe_memory_addr(memory_, 0)"
        /\ ~gen_module.exists => gen_module.globals = {}
        /\ status # "destroyed" => owned.memory
        /\ ~owned.memory
             => /\ gen_module.exists => engine.removed
                /\ gen_module.exists => Pos("removeModule") < Pos("xe_memory_release(memory_)"))
  /\ [][gen_module.exists => gen_module'.globals = gen_module.globals]_vars

\* The object was destroyed after two Prepare() calls on a module with the global.
C24_Witness ==
  /\ status = "destroyed"
  /\ calls = 2
  /\ MemoryBaseGlobal \in gen_module.globals
  /\ engine.removed
  /\ ~owned.memory

(***************************************************************************)
(* C25: the destructor runs the guest teardown (xe_module_uninit and the   *)
(* static destructors) only when Init() has run before, and no more often  *)
(* than Init() has run.                                                    *)
(***************************************************************************)
C25_TeardownOnlyAfterInit ==
  (~InPrepare /\ Has("static_destructors"))
    => /\ counts.init >= 1
       /\ counts.uninit <= counts.init

(***************************************************************************)
(* C26: whenever Init() reads the variable symbols, the symbol database it *)
(* reads is one on which Analyze() has completed and is the one the code   *)
(* generator was built from.                                               *)
(***************************************************************************)
C26_InitReadsAnalyzedDatabase ==
  (InPrepare /\ Has("Init"))
    => /\ sdb.analyzed
       /\ codegen.exists
       /\ codegen.sdb_id = sdb.id

(***************************************************************************)
(* The trampolines generated code calls: XeTrap, XeIndirectBranch,         *)
(* XeInvalidInstruction.                                                   *)
(***************************************************************************)
MaxTrampolineCalls == 3

\* The 32-bit instruction addresses and the raw encodings generated code passes.
Cias == {0, 4}
Encodings == {0, 1, 2}

\* 64-bit addresses, as the pair of their high and low 32 bits.
Addresses64 == {<<0, 4>>, <<1, 8>>}

\* (uint32_t)x of a 64-bit x
Low32(x) == x[2]

GuestStates == {[cia |-> 0, r3 |-> 0], [cia |-> 4, r3 |-> 7]}

\* ppc::GetInstrType: no type for an unknown opcode, else the type, which has a
\* disassembler or has none.
NoInstrType == [known |-> FALSE, name |-> "", disassemble |-> FALSE]

GetInstrType(code) ==
  CASE code = 1 -> [known |-> TRUE, name |-> "addx", disassemble |-> TRUE]
    [] code = 2 -> [known |-> TRUE, name |-> "sc", disassemble |-> FALSE]
    [] OTHER -> NoInstrType

\* The trampolines' part of the state as one record.
TSelf == [log |-> log, halted |-> halted, ppc_state |-> ppc_state]

\* XEASSERTALWAYS(): the process stops.
XEASSERTALWAYS(t) == [t EXCEPT !.halted = TRUE]

XeTrap(t, cia) ==
  XEASSERTALWAYS([t EXCEPT !.log = Append(@, [text |-> "TRAP"])])

XeIndirectBranch(t, target, br_ia) ==
  XEASSERTALWAYS([t EXCEPT !.log = Append(@, [text |-> "INDIRECT BRANCH",
                                               from |-> Low32(br_ia),
                                               to |-> Low32(target)])])

\* A variant that stops the process after it has logged the instruction.
XeInvalidInstruction_Asserts(t, cia, data) ==
  LET type == GetInstrType(data)
      detail == IF ~type.known THEN "???"
                ELSE IF type.disassemble THEN "disasm"
                ELSE type.name
  IN XEASSERTALWAYS([t EXCEPT !.log = Append(@, [text |-> "INVALID INSTRUCTION",
                                                  address |-> cia, code |-> data,
                                                  detail |-> detail])])

XeInvalidInstruction(t, cia, data) ==
  LET type == GetInstrType(data)
      detail == IF ~type.known THEN "???"
                ELSE IF type.disassemble THEN "disasm"
                ELSE type.name
  IN [t EXCEPT !.log = Append(@, [text |-> "INVALID INSTRUCTION", address |-> cia,
                                   code |-> data, detail |-> detail])]

TBecome(t, name) ==
  /\ log' = t.log
  /\ halted' = t.halted
  /\ ppc_state' = t.ppc_state
  /\ last_call' = name
  /\ tcalls' = tcalls + 1
  /\ UNCHANGED <<vars, ivars, fsvars>>

\* Generated code runs as long as the process has not been stopped.
Running == ~halted /\ tcalls < MaxTrampolineCalls

CallXeTrap ==
  /\ Running
  /\ \E cia \in Cias : TBecome(XeTrap(TSelf, cia), "XeTrap")

CallXeIndirectBranch ==
  /\ Running
  /\ \E target \in Addresses64 : \E br_ia \in Addresses64 :
       TBecome(XeIndirectBranch(TSelf, target, br_ia), "XeIndirectBranch")

CallXeInvalidInstruction ==
  /\ Running
  /\ \E cia \in Cias : \E data \in Encodings :
       TBecome(XeInvalidInstruction(TSelf, cia, data), "XeInvalidInstruction")

\* An ExecModule on which nothing has been called.
ExecModuleIdle ==
  /\ ExecModuleStart
  /\ flags = [dump_module_map |-> FALSE, dump_module_bitcode |-> FALSE,
              optimize_ir_modules |-> FALSE]

TrampolineInit ==
  /\ ExecModuleIdle
  /\ InferIdle
  /\ FileSystemStart
  /\ log = <<>>
  /\ halted = FALSE
  /\ ppc_state \in GuestStates
  /\ last_call = ""
  /\ tcalls = 0

TrampolineNext == CallXeTrap \/ CallXeIndirectBranch \/ CallXeInvalidInstruction

TrampolineSpec == TrampolineInit /\ [][TrampolineNext]_tvars

(***************************************************************************)
(* C23: XeInvalidInstruction is not fatal: for every instruction address   *)
(* and raw encoding (unknown opcode, opcode with a disassembler, opcode    *)
(* without one) a call appends exactly one log record, does not stop the   *)
(* process and leaves the guest state as it is; XeTrap and                 *)
(* XeIndirectBranch always stop the process.                               *)
(***************************************************************************)
C23_InvalidInstructionNonFatal ==
  /\ [](halted <=> last_call \in {"XeTrap", "XeIndirectBranch"})
  /\ [][(tcalls' = tcalls + 1 /\ last_call' = "XeInvalidInstruction")
          => /\ Len(log') = Len(log) + 1
             /\ SubSeq(log', 1, Len(log)) = log
             /\ log'[Len(log')].text = "INVALID INSTRUCTION"
             /\ ~halted'
             /\ ppc_state' = ppc_state]_tvars

\* Three calls of XeInvalidInstruction, one for each kind of encoding.
C23_Witness ==
  /\ tcalls = 3
  /\ last_call = "XeInvalidInstruction"
  /\ ~halted
  /\ Len(log) = 3
  /\ {log[i].detail : i \in DOMAIN log} = {"???", "disasm", "sc"}

(***************************************************************************)
(* FileSystem::InferType                                                   *)
(***************************************************************************)
MaxPathLen == 5

\* poly::path_separator
path_separator == "\\"

\* The characters of the host paths: the separator, the dot, and letters.
PathChars == {path_separator, ".", "x", "e"}

\* The host paths, as sequences of characters.
Paths == UNION {[1 .. n -> PathChars] : n \in 0 .. MaxPathLen}

\* std::wstring::npos: the largest value of the position type.
npos == 2147483647

\* s.find_last_of(c): the 0-based place of the last c in s, npos when there is none.
FindLastOf(s, c) ==
  LET places == {i \in DOMAIN s : s[i] = c}
  IN IF places = {} THEN npos
     ELSE (CHOOSE i \in places : \A j \in places : j <= i) - 1

\* s.substr(pos): the characters of s from the 0-based place pos on.
Substr(s, pos) == SubSeq(s, pos + 1, Len(s))

\* s.substr(0, count): at most count characters of s from its start.
SubstrTo(s, count) == SubSeq(s, 1, IF count > Len(s) THEN Len(s) ELSE count)

InferType(path) ==
  LET last_slash == FindLastOf(path, path_separator)
      found_dot == FindLastOf(path, ".")
      last_dot == IF found_dot < last_slash THEN npos ELSE found_dot
  IN IF last_dot = npos THEN "STFS_TITLE"
     ELSE IF Substr(path, last_dot) = <<".", "x", "e", "x">> THEN "XEX_FILE"
     ELSE "DISC_IMAGE"

CallInferType ==
  /\ fs_type = "none"
  /\ fs_type' = InferType(local_path)
  /\ UNCHANGED <<local_path, vars, tvars, fsvars>>

InferInit ==
  /\ ExecModuleIdle
  /\ TrampolinesIdle
  /\ FileSystemStart
  /\ local_path \in Paths
  /\ fs_type = "none"

InferNext == CallInferType

InferSpec == InferInit /\ [][InferNext]_ivars

(***************************************************************************)
(* C27: InferType classifies a path by its final component only: a final   *)
(* component ending in ".xex" gives XEX_FILE, also for a bare file name    *)
(* with no separator; a final component with no dot gives STFS_TITLE, also *)
(* when a directory component has a dot; any other path gives DISC_IMAGE.  *)
(***************************************************************************)
\* The part of the path after its last separator, the whole path when it has none.
FinalComponent(path) ==
  LET places == {i \in DOMAIN path : path[i] = path_separator}
  IN IF places = {} THEN path
     ELSE SubSeq(path, (CHOOSE i \in places : \A j \in places : j <= i) + 1, Len(path))

EndsWithXex(name) ==
  Len(name) >= 4 /\ SubSeq(name, Len(name) - 3, Len(name)) = <<".", "x", "e", "x">>

C27_ClassifiesByFinalComponent ==
  fs_type # "none"
    => LET name == FinalComponent(local_path)
       IN fs_type = (IF EndsWithXex(name) THEN "XEX_FILE"
                     ELSE IF \A i \in DOMAIN name : name[i] # "." THEN "STFS_TITLE"
                     ELSE "DISC_IMAGE")

(***************************************************************************)
(* FileSystem: devices and symbolic links.  A guest path is a sequence of  *)
(* pieces: a drive name, a separator, a name.                              *)
(***************************************************************************)
MaxDevices == 2

GameLink == <<"game:">>
DLink == <<"d:">>
Cdrom0 == <<"\\", "Device", "\\", "Cdrom0">>
Harddisk1Partition0 == <<"\\", "Device", "\\", "Harddisk1", "\\", "Partition0">>

\* The link names and the targets CreateSymbolicLink is called with.
LinkNames == {GameLink, DLink}
LinkTargets == {Cdrom0, Harddisk1Partition0}

\* What follows the drive name in the paths that are resolved.
Rests == {<<"\\", "default.xex">>}

\* The paths ResolvePath is called with.
GuestPaths ==
  {<<"game:", "\\", "default.xex">>, <<"GAME:", "\\", "default.xex">>,
   <<"d:", "\\", "default.xex">>, <<"d:", "\\", ".", "\\", "default.xex">>,
   <<"\\", "default.xex">>, <<"e:", "\\", "default.xex">>}

\* The host paths InitializeFromPath is called with: "x\e.xex" and "e".
LocalPaths == {<<"x", "\\", "e", ".", "x", "e", "x">>, <<"e">>}

FileSystemTypes == {"STFS_TITLE", "XEX_FILE", "DISC_IMAGE"}

\* The folding of case the comparison of find_first_of_case makes.
LowerCase(piece) ==
  CASE piece = "GAME:" -> "game:"
    [] piece = "D:" -> "d:"
    [] OTHER -> piece

\* poly::find_first_of_case(s, prefix) == 0
StartsWithNoCase(s, prefix) ==
  /\ Len(prefix) <= Len(s)
  /\ \A i \in DOMAIN prefix : LowerCase(s[i]) = LowerCase(prefix[i])

\* poly::fs::CanonicalizePath: the "." components are dropped.
RECURSIVE CanonicalizePath(_)
CanonicalizePath(path) ==
  IF path = <<>> THEN <<>>
  ELSE IF Len(path) >= 2 /\ path[1] = "\\" /\ path[2] = "."
  THEN CanonicalizePath(SubSeq(path, 3, Len(path)))
  ELSE <<path[1]>> \o CanonicalizePath(Tail(path))

\* The FileSystem as one record, which the operators below take and return.
FsSelf == [devices |-> devices, symlinks |-> symlinks]

Returns(fs, result) == [fs |-> fs, result |-> result]

RegisterDevice(fs, path, device) ==
  Returns([fs EXCEPT !.devices = Append(@, device)], 0)

RegisterHostPathDevice(fs, path, host_path, read_only) ==
  RegisterDevice(fs, path, [path |-> path, kind |-> "HostPathDevice",
                            local_path |-> host_path])

\* init_ok: whether the Init() of the new device succeeds.
RegisterDiscImageDevice(fs, path, host_path, init_ok) ==
  IF ~init_ok THEN Returns(fs, 1)
  ELSE RegisterDevice(fs, path, [path |-> path, kind |-> "DiscImageDevice",
                                 local_path |-> host_path])

RegisterSTFSContainerDevice(fs, path, host_path, init_ok) ==
  IF ~init_ok THEN Returns(fs, 1)
  ELSE RegisterDevice(fs, path, [path |-> path, kind |-> "STFSContainerDevice",
                                 local_path |-> host_path])

HasLink(fs, path) == \E l \in fs.symlinks : l.path = path

\* symlinks_.insert({path, target}): a key that is in the table keeps its value.
MapInsert(table, path, target) ==
  IF \E l \in table : l.path = path THEN table
  ELSE table \cup {[path |-> path, target |-> target]}

CreateSymbolicLink(fs, path, target) ==
  Returns([fs EXCEPT !.symlinks = MapInsert(@, path, target)], 0)

DeleteSymbolicLink(fs, path) ==
  IF ~HasLink(fs, path) THEN Returns(fs, 1)
  ELSE Returns([fs EXCEPT !.symlinks = {l \in @ : l.path # path}], 0)

\* The registration of the device, and the links when it succeeded.
MountAndLink(r, device_path) ==
  IF r.result # 0 THEN r
  ELSE LET r1 == CreateSymbolicLink(r.fs, GameLink, device_path)
           r2 == CreateSymbolicLink(r1.fs, DLink, device_path)
       IN Returns(r2.fs, 0)

InitializeFromPath(fs, type, host_path, init_ok) ==
  CASE type = "STFS_TITLE" ->
         MountAndLink(RegisterSTFSContainerDevice(fs, Cdrom0, host_path, init_ok), Cdrom0)
    [] type = "XEX_FILE" ->
         LET last_slash == FindLastOf(host_path, path_separator)
             parent_path == SubstrTo(host_path, last_slash)
         IN MountAndLink(RegisterHostPathDevice(fs, Harddisk1Partition0, parent_path, TRUE),
                         Harddisk1Partition0)
    [] type = "DISC_IMAGE" ->
         MountAndLink(RegisterDiscImageDevice(fs, Cdrom0, host_path, init_ok), Cdrom0)
    [] OTHER -> Returns(fs, 0)

\* The path with the prefix of the matching link replaced by the link's target.
FullPath(fs, path) ==
  LET canonical == CanonicalizePath(path)
      normalized == IF canonical # <<>> /\ canonical[1] = "\\"
                    THEN GameLink \o canonical ELSE canonical
      matching == {l \in fs.symlinks : StartsWithNoCase(normalized, l.path)}
  IN IF matching = {} THEN normalized
     ELSE LET it == CHOOSE l \in matching : TRUE
          IN it.target \o SubSeq(normalized, Len(it.path) + 1, Len(normalized))

NoEntry == [found |-> FALSE]

\* The entry of the first device whose path starts the full path, none when
\* there is no such device.
ResolvePath(fs, path) ==
  LET full_path == FullPath(fs, path)
      found == {i \in DOMAIN fs.devices : StartsWithNoCase(full_path, fs.devices[i].path)}
  IN IF found = {} THEN NoEntry
     ELSE LET i == CHOOSE k \in found : \A j \in found : k <= j
          IN [found |-> TRUE, device |-> i,
              device_path |-> SubSeq(full_path, Len(fs.devices[i].path) + 1, Len(full_path))]

FsBecome(fs) ==
  /\ devices' = fs.devices
  /\ symlinks' = fs.symlinks
  /\ UNCHANGED <<vars, tvars, ivars>>

CallInitializeFromPath ==
  /\ Len(devices) < MaxDevices
  /\ \E type \in FileSystemTypes : \E host_path \in LocalPaths : \E init_ok \in BOOLEAN :
       \E r \in {InitializeFromPath(FsSelf, type, host_path, init_ok)} :
         /\ FsBecome(r.fs)
         /\ fs_last' = [op |-> "InitializeFromPath", type |-> type, result |-> r.result]

CallCreateSymbolicLink ==
  \E path \in LinkNames : \E target \in LinkTargets :
    \E r \in {CreateSymbolicLink(FsSelf, path, target)} :
      /\ FsBecome(r.fs)
      /\ fs_last' = [op |-> "CreateSymbolicLink", path |-> path, target |-> target,
                     result |-> r.result]

CallDeleteSymbolicLink ==
  \E path \in LinkNames :
    \E r \in {DeleteSymbolicLink(FsSelf, path)} :
      /\ FsBecome(r.fs)
      /\ fs_last' = [op |-> "DeleteSymbolicLink", path |-> path, result |-> r.result]

CallResolvePath ==
  \E path \in GuestPaths :
    /\ FsBecome(FsSelf)
    /\ fs_last' = [op |-> "ResolvePath", path |-> path, entry |-> ResolvePath(FsSelf, path)]

FsInit ==
  /\ ExecModuleIdle
  /\ TrampolinesIdle
  /\ InferIdle
  /\ FileSystemStart

FsNext ==
  \/ CallInitializeFromPath
  \/ CallCreateSymbolicLink
  \/ CallDeleteSymbolicLink
  \/ CallResolvePath

FsSpec == FsInit /\ [][FsNext]_fsvars

(***************************************************************************)
(* C28: after CreateSymbolicLink(path, target) has returned 0 the table    *)
(* maps path to target, and a name that starts with path resolves through  *)
(* target, also when path was linked to another target before.             *)
(***************************************************************************)
C28_CreatedLinkMapsToTarget ==
  (fs_last.op = "CreateSymbolicLink" /\ fs_last.result = 0)
    => /\ [path |-> fs_last.path, target |-> fs_last.target] \in symlinks
       /\ \A rest \in Rests :
            FullPath(FsSelf, fs_last.path \o rest) = fs_last.target \o rest

(***************************************************************************)
(* C29: InitializeFromPath is all or nothing: when it returns nonzero the  *)
(* device list and the link table are as before; when it returns 0 it has  *)
(* appended exactly one device, and "game:" and "d:" are linked to that    *)
(* device's path.                                                          *)
(***************************************************************************)
C29_InitializeAllOrNothing ==
  [][fs_last'.op = "InitializeFromPath"
       => IF fs_last'.result # 0
          THEN devices' = devices /\ symlinks' = symlinks
          ELSE /\ Len(devices') = Len(devices) + 1
               /\ SubSeq(devices', 1, Len(devices)) = devices
               /\ \A name \in LinkNames :
                    [path |-> name, target |-> devices'[Len(devices')].path] \in symlinks']_fsvars
====
